---- MODULE Spec2Model ----
(***************************************************************************)
(* SqliteRepository (bookkeeper/repository/sqlite_repository.py): a        *)
(* repository that stores the instances of one class in one SQLite table.  *)
(*                                                                         *)
(* Python values are modelled as tagged records [t, v]:                    *)
(*   int       v is the integer                                            *)
(*   str       v is the sequence of its characters                         *)
(*   float     v is the value in tenths (15 is 1.5)                        *)
(*   datetime  v is [year, month, day, hour, minute, second, microsecond]  *)
(* SQLite values are tagged with their storage class:                      *)
(*   INTEGER (v integer), REAL (v in tenths), TEXT (v characters), NULL.   *)
(***************************************************************************)
EXTENDS Integers, Sequences, FiniteSets, TLC

VARIABLES
    fields,     \* self._fields: the class's annotations without primary_key
                \* (the empty sequence while no repository is constructed)
    created,    \* the database holds the table
    table,      \* the rows of the table, in rowid order
    stmt,       \* the statement the last call executed: [text, params]
    open,       \* the connections, cursors and transaction left open
    issued,     \* history: the largest key add has returned so far
    call,       \* the last call made on the repository: [op, arg]
    ret,        \* how that call ended: a returned value or a raised error
    obj,        \* the caller's instance after the call (add assigns its key)
    written,    \* history: the instance last written under each stored key,
                \* in the order the surviving instances were added
    heap,       \* the caller's instances by identity (a position in the heap)
    refs        \* the identities of the instances the last call returned

vars ==
    <<fields, created, table, stmt, open, issued, call, ret, obj, written, heap, refs>>

\* The most rows the table holds, and the largest key add may assign.
MaxRows == 2
MaxKey == 2
\* The most instances the caller holds where identities are followed.
MaxObjects == 2

PK_FIELD_NAME == "primary_key"

None == [t |-> "NoneType", v |-> 0]

----------------------------------------------------------------------------
(* Characters and decimal numerals *)

Digits == <<"0", "1", "2", "3", "4", "5", "6", "7", "8", "9">>

IsDigit(c) == \E i \in 1..10 : Digits[i] = c

DigitVal(c) == (CHOOSE i \in 1..10 : Digits[i] = c) - 1

RECURSIVE Pow10(_)
Pow10(n) == IF n = 0 THEN 1 ELSE 10 * Pow10(n - 1)

\* n written with exactly w decimal digits (zero padded).
Pad(n, w) == [i \in 1..w |-> Digits[((n \div Pow10(w - i)) % 10) + 1]]

RECURSIVE NumWidth(_)
NumWidth(n) == IF n < 10 THEN 1 ELSE 1 + NumWidth(n \div 10)

\* n written without padding.
Numeral(n) == Pad(n, NumWidth(n))

RECURSIVE ParseNat(_)
ParseNat(s) ==
    IF s = <<>> THEN 0
    ELSE 10 * ParseNat(SubSeq(s, 1, Len(s) - 1)) + DigitVal(s[Len(s)])

AllDigits(s) == Len(s) > 0 /\ \A i \in 1..Len(s) : IsDigit(s[i])

----------------------------------------------------------------------------
(* datetime.strftime / datetime.strptime with _datetime_fmt *)

\* strptime's %y: 69..99 are 1969..1999 and 00..68 are 2000..2068.
PivotYear == 69

\* A format with the month before the day, read back day first.
strftime_month_first(d) ==
    Pad(d.month, 2) \o <<"/">> \o Pad(d.day, 2) \o <<"/">>
        \o Pad(d.year % 100, 2) \o <<" ">>
        \o Pad(d.hour, 2) \o <<":">> \o Pad(d.minute, 2) \o <<":">>
        \o Pad(d.second, 2) \o <<".">> \o Pad(d.microsecond, 6)

\* val.strftime("%d/%m/%y %H:%M:%S.%f")
strftime(d) ==
    Pad(d.day, 2) \o <<"/">> \o Pad(d.month, 2) \o <<"/">>
        \o Pad(d.year % 100, 2) \o <<" ">>
        \o Pad(d.hour, 2) \o <<":">> \o Pad(d.minute, 2) \o <<":">>
        \o Pad(d.second, 2) \o <<".">> \o Pad(d.microsecond, 6)

CenturyOf(yy) == IF yy >= PivotYear THEN 1900 + yy ELSE 2000 + yy

\* datetime.strptime(val, "%d/%m/%y %H:%M:%S.%f") on a text strftime wrote.
strptime(s) ==
    [year        |-> CenturyOf(ParseNat(SubSeq(s, 7, 8))),
     month       |-> ParseNat(SubSeq(s, 4, 5)),
     day         |-> ParseNat(SubSeq(s, 1, 2)),
     hour        |-> ParseNat(SubSeq(s, 10, 11)),
     minute      |-> ParseNat(SubSeq(s, 13, 14)),
     second      |-> ParseNat(SubSeq(s, 16, 17)),
     microsecond |-> ParseNat(SubSeq(s, 19, 24))]

\* _val_to_sql: a datetime becomes its formatted text, anything else is kept.
val_to_sql(val) ==
    IF val.t = "datetime" THEN [t |-> "str", v |-> strftime(val.v)] ELSE val

\* _make_val_from_sql: a datetime field parses the text, anything else is kept.
make_val_from_sql(tpy, val) ==
    IF tpy = "datetime" THEN [t |-> "datetime", v |-> strptime(val.v)] ELSE val

----------------------------------------------------------------------------
(* The class handed to the constructor *)

\* _type_mappings: the column type declared for each supported Python type.
type_mappings ==
    [str |-> "TEXT", int |-> "INTEGER", float |-> "REAL", datetime |-> "DATETIME"]

\* _map_to_sql, where the type has a mapping (else it raises ValueError).
Mapped(tpy) == tpy \in DOMAIN type_mappings
map_to_sql(tpy) == type_mappings[tpy]

\* The annotations (primary_key popped) of the classes a repository is built
\* for: the int/str class of the tests and a class with float and datetime.
Custom == <<[name |-> "data", tpy |-> "int"], [name |-> "data_str", tpy |-> "str"]>>
Stamped ==
    <<[name |-> "data_float", tpy |-> "float"], [name |-> "data_dt", tpy |-> "datetime"]>>

Classes == {Custom, Stamped}

\* The annotations of a class: primary_key: int, then its fields.
Annotated(fs) == <<[name |-> PK_FIELD_NAME, tpy |-> "int"]>> \o fs

\* The classes a constructor is called with: the two classes above, a class
\* without annotations, one with primary_key only, one without primary_key,
\* and two with a field of a type that has no mapping.
Descriptors ==
    {Annotated(fs) : fs \in Classes}
        \cup {<<>>, Annotated(<<>>), Custom,
              Annotated(<<[name |-> "flag", tpy |-> "bool"]>>),
              Annotated(<<[name |-> "data", tpy |-> "int"],
                          [name |-> "flag", tpy |-> "bool"]>>)}

\* self._fields.pop(PK_FIELD_NAME): the annotations without primary_key.
Popped(cls) == SelectSeq(cls, LAMBDA f : f.name # PK_FIELD_NAME)

\* cls.__name__.lower()
TableName(fs) == IF fs = Custom THEN "custom" ELSE "stamped"

FieldNames(fs) == {fs[i].name : i \in 1..Len(fs)}

FieldIndex(fs, name) == CHOOSE i \in 1..Len(fs) : fs[i].name = name

FieldType(fs, name) == fs[FieldIndex(fs, name)].tpy

----------------------------------------------------------------------------
(* Values the caller uses *)

Chars(str) ==
    CASE str = "0" -> <<"0">>
      [] str = "1.5" -> <<"1", ".", "5">>
      [] str = "test" -> <<"t", "e", "s", "t">>

IntV(n) == [t |-> "int", v |-> n]
StrV(s) == [t |-> "str", v |-> Chars(s)]
FloatV(tenths) == [t |-> "float", v |-> tenths]
DateV(y, mo, d, h, mi, s, us) ==
    [t |-> "datetime",
     v |-> [year |-> y, month |-> mo, day |-> d, hour |-> h, minute |-> mi,
            second |-> s, microsecond |-> us]]

\* A date-time of 1950 and one of 2024.
Date1950 == DateV(1950, 6, 15, 3, 4, 5, 6)
Date2024 == DateV(2024, 1, 2, 23, 59, 58, 999999)

ValuesOf(tpy) ==
    CASE tpy = "int" -> {IntV(0), IntV(1)}
      [] tpy = "str" -> {StrV("0"), StrV("test")}
      [] tpy = "float" -> {FloatV(10), FloatV(15)}
      [] tpy = "datetime" -> {Date1950, Date2024}

\* The instances of the class: every field holds a value of its declared type;
\* primary_key is an integer, or the attribute is missing (has_pk is FALSE:
\* getattr(obj, "primary_key", None) is None).

Attrs(fs) ==
    {a \in [FieldNames(fs) -> UNION {ValuesOf(fs[i].tpy) : i \in 1..Len(fs)}] :
        \A n \in FieldNames(fs) : a[n] \in ValuesOf(FieldType(fs, n))}

Instances(fs) ==
    {[has_pk |-> TRUE, primary_key |-> k, attrs |-> a] : k \in 0..MaxKey, a \in Attrs(fs)}
        \cup {[has_pk |-> FALSE, primary_key |-> 0, attrs |-> a] : a \in Attrs(fs)}

\* The instances of each class, computed once.
InstancesOf == [fs \in Classes |-> Instances(fs)]

----------------------------------------------------------------------------
(* SQLite: parameter binding, column affinity, comparison *)

\* The sqlite3 module's default adapter for datetime: isoformat(" ").
isoformat(d) ==
    Pad(d.year, 4) \o <<"-">> \o Pad(d.month, 2) \o <<"-">> \o Pad(d.day, 2)
        \o <<" ">> \o Pad(d.hour, 2) \o <<":">> \o Pad(d.minute, 2) \o <<":">>
        \o Pad(d.second, 2)
        \o (IF d.microsecond = 0 THEN <<>> ELSE <<".">> \o Pad(d.microsecond, 6))

\* The SQLite value a Python value is bound as.
Bind(val) ==
    CASE val.t = "int" -> [t |-> "INTEGER", v |-> val.v]
      [] val.t = "float" -> [t |-> "REAL", v |-> val.v]
      [] val.t = "str" -> [t |-> "TEXT", v |-> val.v]
      [] val.t = "datetime" -> [t |-> "TEXT", v |-> isoformat(val.v)]
      [] OTHER -> [t |-> "NULL", v |-> 0]

\* The Python value a fetched SQLite value is returned as.
Fetch(sv) ==
    CASE sv.t = "INTEGER" -> [t |-> "int", v |-> sv.v]
      [] sv.t = "REAL" -> [t |-> "float", v |-> sv.v]
      [] sv.t = "TEXT" -> [t |-> "str", v |-> sv.v]
      [] OTHER -> None

\* The affinity of a declared column type (SQLite's rules on the type name).
Affinity(decl) ==
    CASE decl = "INTEGER" -> "INTEGER"
      [] decl = "TEXT" -> "TEXT"
      [] decl = "REAL" -> "REAL"
      [] OTHER -> "NUMERIC"

\* A text that is a whole number / a number with one decimal.
LooksInt(s) == AllDigits(s)
LooksReal(s) ==
    /\ Len(s) >= 3
    /\ s[Len(s) - 1] = "."
    /\ AllDigits(SubSeq(s, 1, Len(s) - 2))
    /\ IsDigit(s[Len(s)])

RealText(tenths) == Numeral(tenths \div 10) \o <<".">> \o Numeral(tenths % 10)

ToNumeric(sv) ==
    IF sv.t # "TEXT" THEN sv
    ELSE IF LooksInt(sv.v) THEN [t |-> "INTEGER", v |-> ParseNat(sv.v)]
    ELSE IF LooksReal(sv.v)
         THEN [t |-> "REAL",
               v |-> 10 * ParseNat(SubSeq(sv.v, 1, Len(sv.v) - 2))
                     + DigitVal(sv.v[Len(sv.v)])]
    ELSE sv

\* A REAL with no fraction becomes an INTEGER; an INTEGER becomes a REAL.
ToInteger(sv) ==
    IF sv.t = "REAL" /\ sv.v % 10 = 0 THEN [t |-> "INTEGER", v |-> sv.v \div 10] ELSE sv
ToReal(sv) == IF sv.t = "INTEGER" THEN [t |-> "REAL", v |-> 10 * sv.v] ELSE sv

ApplyAffinity(aff, sv) ==
    CASE aff = "TEXT" ->
            IF sv.t = "INTEGER" THEN [t |-> "TEXT", v |-> Numeral(sv.v)]
            ELSE IF sv.t = "REAL" THEN [t |-> "TEXT", v |-> RealText(sv.v)]
            ELSE sv
      [] aff = "REAL" -> ToReal(ToNumeric(sv))
      [] OTHER -> ToInteger(ToNumeric(sv))

IsNumber(sv) == sv.t \in {"INTEGER", "REAL"}

\* a = b in SQL: numbers compare by value, texts by their characters, a
\* number never equals a text, NULL equals nothing.
SqlEq(a, b) ==
    IF IsNumber(a) /\ IsNumber(b) THEN ToReal(a).v = ToReal(b).v
    ELSE a.t = "TEXT" /\ b.t = "TEXT" /\ a.v = b.v

\* column = ? : the column's affinity is applied to the parameter first
\* (a column of INTEGER, REAL or NUMERIC affinity makes it a number if it
\* looks like one; a TEXT column makes a number a text).
ColumnEq(decl, stored, param) ==
    SqlEq(stored,
          IF Affinity(decl) = "TEXT" THEN ApplyAffinity("TEXT", param)
          ELSE ToNumeric(param))

----------------------------------------------------------------------------
(* The table and the statements run on it *)

\* CREATE TABLE: primary_key INTEGER PRIMARY KEY NOT NULL, then one column
\* per field with its mapped type.
ColumnNames(fs) == {PK_FIELD_NAME} \cup FieldNames(fs)

ColumnDecl(fs, name) ==
    IF name = PK_FIELD_NAME THEN "INTEGER" ELSE map_to_sql(FieldType(fs, name))

ColumnValue(row, name) ==
    IF name = PK_FIELD_NAME THEN [t |-> "INTEGER", v |-> row.primary_key]
    ELSE row.cols[name]

\* A key taken from the number of rows instead of the largest rowid.
NewRowid_count(tbl) == Len(tbl) + 1

\* The rowid an INTEGER PRIMARY KEY column gets when none is given: one more
\* than the largest rowid in the table (the rows are kept in rowid order).
NewRowid(tbl) == IF tbl = <<>> THEN 1 ELSE tbl[Len(tbl)].primary_key + 1

\* The row INSERT stores: each bound value under its column's affinity.
StoredRow(fs, rowid, values) ==
    [primary_key |-> rowid,
     cols |-> [n \in FieldNames(fs) |->
                 ApplyAffinity(Affinity(ColumnDecl(fs, n)),
                               Bind(values[FieldIndex(fs, n)]))]]

\* INSERT INTO table (names) VALUES (?, ...)
Insert(tbl, fs, values) == Append(tbl, StoredRow(fs, NewRowid(tbl), values))

Matching(tbl, key) == {i \in 1..Len(tbl) : tbl[i].primary_key = key}

\* An UPDATE without its WHERE clause.
Update_all(tbl, fs, key, values) ==
    [i \in 1..Len(tbl) |-> StoredRow(fs, tbl[i].primary_key, values)]

\* UPDATE table SET (names) = (?, ...) WHERE primary_key=key
Update(tbl, fs, key, values) ==
    [i \in 1..Len(tbl) |->
        IF tbl[i].primary_key = key THEN StoredRow(fs, key, values) ELSE tbl[i]]

\* The rows of tbl at the positions that satisfy keep, in their order.
RECURSIVE Keep(_, _)
Keep(tbl, keep) ==
    IF tbl = <<>> THEN <<>>
    ELSE Keep(SubSeq(tbl, 1, Len(tbl) - 1), keep)
            \o (IF Len(tbl) \in keep THEN <<tbl[Len(tbl)]>> ELSE <<>>)

\* DELETE FROM table WHERE primary_key=key
Delete(tbl, key) == Keep(tbl, (1..Len(tbl)) \ Matching(tbl, key))

\* SELECT ... WHERE n1 = ? AND n2 = ? ... (rows come in rowid order)
SelectWhere(tbl, fs, items) ==
    Keep(tbl, {i \in 1..Len(tbl) :
                 \A j \in 1..Len(items) :
                    ColumnEq(ColumnDecl(fs, items[j].name),
                             ColumnValue(tbl[i], items[j].name),
                             Bind(items[j].val))})

\* The fetched values of a row's field columns, in field order.
FetchRow(fs, row) == [i \in 1..Len(fs) |-> Fetch(row.cols[fs[i].name])]

----------------------------------------------------------------------------
(* How a call ends *)

Ok(v) == [kind |-> "ok", val |-> v]
\* A raised error, and one whose message names a key.
Raise(kind, msg) == [kind |-> kind, val |-> [msg |-> msg]]
RaiseKey(kind, msg, key) == [kind |-> kind, val |-> [msg |-> msg, key |-> key]]

----------------------------------------------------------------------------
(* Marshalling *)

\* _decompose: the fields of obj, in field order, each through _val_to_sql.
decompose(fs, o) == [i \in 1..Len(fs) |-> val_to_sql(o.attrs[fs[i].name])]

\* The first column make_obj rejects (0 if none): its decoded value is not
\* of the field's declared type (strptime itself raises TypeError when it is
\* handed something that is not a text).
BadColumn(fs, vals) ==
    LET bad == {i \in 1..Len(fs) :
                  IF fs[i].tpy = "datetime" THEN vals[i].t # "str"
                  ELSE make_val_from_sql(fs[i].tpy, vals[i]).t # fs[i].tpy}
    IN  IF bad = {} THEN 0 ELSE CHOOSE i \in bad : \A j \in bad : i <= j

\* _make_obj: a new instance with the key and every decoded column value.
make_obj(fs, primary_key, vals) ==
    IF BadColumn(fs, vals) # 0 THEN Raise("TypeError", "incompatible types")
    ELSE Ok([has_pk |-> TRUE, primary_key |-> primary_key,
             attrs |-> [n \in FieldNames(fs) |->
                          make_val_from_sql(FieldType(fs, n), vals[FieldIndex(fs, n)])]])

----------------------------------------------------------------------------
(* The filters get_all is called with *)

NoWhere == [given |-> FALSE, items |-> <<>>]
Where(items) == [given |-> TRUE, items |-> items]
Item(name, val) == [name |-> name, val |-> val]

FilterValues ==
    {IntV(0), IntV(1), StrV("0"), StrV("test"), StrV("1.5"), FloatV(10), FloatV(15),
     Date1950, Date2024}

\* No filter, an empty mapping, one entry on a field (any value), on the key
\* column or on a name that is no column, and one entry on each field.
Filters(fs) ==
    {NoWhere, Where(<<>>)}
        \cup {Where(<<Item(n, x)>>) : n \in FieldNames(fs), x \in FilterValues}
        \cup {Where(<<Item(PK_FIELD_NAME, IntV(1))>>), Where(<<Item("nokey", IntV(0))>>)}
        \cup {Where(<<Item(fs[1].name, x), Item(fs[2].name, y)>>) :
                x \in ValuesOf(fs[1].tpy), y \in ValuesOf(fs[2].tpy)}

\* The filters of each class, computed once.
FiltersOf == [fs \in Classes |-> Filters(fs)]

----------------------------------------------------------------------------
(* Reads *)

\* get: SELECT names FROM table WHERE primary_key = key, fetchone; None if
\* there is no row, else _make_obj.
GetResult(tbl, fs, primary_key) ==
    IF Matching(tbl, primary_key) = {} THEN Ok(None)
    ELSE make_obj(fs, primary_key,
                  FetchRow(fs, tbl[CHOOSE i \in Matching(tbl, primary_key) : TRUE]))

\* The statement get_all builds fails in the database when its WHERE clause
\* is empty or names something that is no column of the table.
QueryFails(fs, where) ==
    /\ where.given
    /\ \/ where.items = <<>>
       \/ \E j \in 1..Len(where.items) : where.items[j].name \notin ColumnNames(fs)

\* get_all: SELECT primary_key, names FROM table [WHERE ...], fetchall, then
\* _make_obj for every row.
GetAllResult(tbl, fs, where) ==
    IF QueryFails(fs, where) THEN Raise("OperationalError", "query")
    ELSE LET rows == IF where.given THEN SelectWhere(tbl, fs, where.items) ELSE tbl
             made == [i \in 1..Len(rows) |->
                        make_obj(fs, rows[i].primary_key, FetchRow(fs, rows[i]))]
             bad  == {i \in 1..Len(rows) : made[i].kind # "ok"}
         IN  IF bad # {} THEN made[CHOOSE i \in bad : \A j \in bad : i <= j]
             ELSE Ok([i \in 1..Len(rows) |-> made[i].val])

----------------------------------------------------------------------------
(* The statements the methods build *)

\* ", ".join(names)
RECURSIVE Join(_)
Join(names) ==
    IF Len(names) = 0 THEN <<>>
    ELSE IF Len(names) = 1 THEN names
    ELSE <<names[1], ",">> \o Join(Tail(names))

Names(fs) == Join([i \in 1..Len(fs) |-> fs[i].name])

\* ", ".join("?" * len(self._fields))
Placeholders(fs) == Join([i \in 1..Len(fs) |-> "?"])

NoStatement == [text |-> <<>>, params |-> <<>>]

\* ", ".join(name + " " + _map_to_sql(tpy) for name, tpy in fields)
RECURSIVE ColumnDefs(_)
ColumnDefs(fs) ==
    IF Len(fs) = 0 THEN <<>>
    ELSE IF Len(fs) = 1 THEN <<fs[1].name, map_to_sql(fs[1].tpy)>>
    ELSE <<fs[1].name, map_to_sql(fs[1].tpy), ",">> \o ColumnDefs(Tail(fs))

\* CREATE TABLE IF NOT EXISTS table(primary_key INTEGER PRIMARY KEY NOT NULL, ...)
create_statement(fs) ==
    [text |-> <<"CREATE TABLE IF NOT EXISTS", TableName(fs), "(", PK_FIELD_NAME,
                "INTEGER PRIMARY KEY NOT NULL", ",">>
                \o ColumnDefs(fs) \o <<")">>,
     params |-> <<>>]

\* INSERT INTO table (names) VALUES (placeholders), with the decomposed values
add_statement(fs, o) ==
    [text |-> <<"INSERT INTO", TableName(fs), "(">> \o Names(fs)
                \o <<")", "VALUES", "(">> \o Placeholders(fs) \o <<")">>,
     params |-> decompose(fs, o)]

\* SELECT names FROM table WHERE primary_key = {primary_key}: the key is
\* formatted into the text.
get_statement(fs, primary_key) ==
    [text |-> <<"SELECT">> \o Names(fs)
                \o <<"FROM", TableName(fs), "WHERE", PK_FIELD_NAME, "=">>
                \o Numeral(primary_key),
     params |-> <<>>]

\* " AND ".join(name = ? for name in where)
RECURSIVE Conditions(_)
Conditions(items) ==
    IF Len(items) = 0 THEN <<>>
    ELSE IF Len(items) = 1 THEN <<items[1].name, "=", "?">>
    ELSE <<items[1].name, "=", "?", "AND">> \o Conditions(Tail(items))

\* SELECT primary_key, names FROM table [WHERE conditions], with the filter's
\* values as they are
get_all_statement(fs, where) ==
    [text |-> <<"SELECT", PK_FIELD_NAME, ",">> \o Names(fs) \o <<"FROM", TableName(fs)>>
                \o (IF where.given THEN <<"WHERE">> \o Conditions(where.items) ELSE <<>>),
     params |-> [j \in 1..Len(where.items) |-> where.items[j].val]]

\* UPDATE table SET (names) = (placeholders) WHERE primary_key={primary_key}
update_statement(fs, o) ==
    [text |-> <<"UPDATE", TableName(fs), "SET", "(">> \o Names(fs) \o <<")", "=", "(">>
                \o Placeholders(fs) \o <<")", "WHERE", PK_FIELD_NAME, "=">>
                \o Numeral(o.primary_key),
     params |-> decompose(fs, o)]

\* DELETE FROM table WHERE primary_key={primary_key}
delete_statement(fs, primary_key) ==
    [text |-> <<"DELETE FROM", TableName(fs), "WHERE", PK_FIELD_NAME, "=">>
                \o Numeral(primary_key),
     params |-> <<>>]

----------------------------------------------------------------------------
(* with closing(sqlite3.connect(...)) as con, con as con,
        closing(con.cursor()) as cursor *)

Closed == [connections |-> 0, cursors |-> 0, in_transaction |-> FALSE]

\* Entering the with statement: a connection and a cursor on it.
WithEnter(res) ==
    [res EXCEPT !.connections = @ + 1, !.cursors = @ + 1]

\* cursor.execute: INSERT, UPDATE and DELETE open a transaction.
Execute(res, writes) == [res EXCEPT !.in_transaction = @ \/ writes]

\* An exit that releases only when the block ends without an exception.
WithExit_on_success(res, outcome) ==
    IF outcome.kind = "ok"
    THEN [connections |-> res.connections - 1, cursors |-> res.cursors - 1,
          in_transaction |-> FALSE]
    ELSE res

\* Leaving the with statement, by its end, a return or an exception: the
\* cursor is closed, the transaction committed (rolled back on an
\* exception), the connection closed.
WithExit(res, outcome) ==
    [connections |-> res.connections - 1, cursors |-> res.cursors - 1,
     in_transaction |-> FALSE]

\* The resources left after a call that ran one statement in a with block.
Scoped(res, writes, outcome) == WithExit(Execute(WithEnter(res), writes), outcome)

----------------------------------------------------------------------------
(* The repository *)

\* No repository yet, and a database without the table.
Init ==
    /\ fields = <<>>
    /\ created = FALSE
    /\ table = <<>>
    /\ stmt = NoStatement
    /\ open = Closed
    /\ issued = 0
    /\ call = [op |-> "none", arg |-> 0]
    /\ ret = Ok(None)
    /\ obj = None
    /\ written = <<>>
    /\ heap = <<>>
    /\ refs = <<>>

\* What __init__ and _init_database raise for a class, "ok" if nothing.
InitError(cls) ==
    IF Len(cls) = 0 THEN "TypeError"
    ELSE IF \A i \in 1..Len(cls) : cls[i].name # PK_FIELD_NAME THEN "KeyError"
    ELSE IF \E i \in 1..Len(Popped(cls)) : ~Mapped(Popped(cls)[i].tpy) THEN "ValueError"
    ELSE IF Popped(cls) = <<>> THEN "OperationalError"
    ELSE "ok"

\* The constructor reaches the with block of _init_database.
InitConnects(cls) == InitError(cls) \notin {"TypeError", "KeyError"}

\* A constructor that creates the table with a plain CREATE TABLE.
init_create_only(cls) ==
    /\ created => (InitError(cls) # "ok" \/ Popped(cls) = fields)
    /\ call' = [op |-> "__init__", arg |-> cls]
    /\ obj' = None
    /\ UNCHANGED <<table, issued, written>>
    /\ ret' = IF InitError(cls) # "ok" THEN Raise(InitError(cls), "schema")
              ELSE IF created THEN Raise("OperationalError", "table exists")
              ELSE Ok(None)
    /\ stmt' = IF InitError(cls) \in {"ok", "OperationalError"}
               THEN create_statement(Popped(cls)) ELSE NoStatement
    /\ open' = IF InitConnects(cls) THEN Scoped(open, FALSE, ret') ELSE open
    /\ created' = (created \/ InitError(cls) = "ok")
    /\ fields' = IF ret'.kind = "ok" THEN Popped(cls) ELSE fields

\* A constructor that takes the class as it is and leaves the table to later.
init_unvalidated(cls) ==
    /\ created => (InitError(cls) # "ok" \/ Popped(cls) = fields)
    /\ call' = [op |-> "__init__", arg |-> cls]
    /\ obj' = None
    /\ UNCHANGED <<table, issued, written, open>>
    /\ ret' = Ok(None)
    /\ stmt' = NoStatement
    /\ created' = TRUE
    /\ fields' = Popped(cls)

\* __init__ with _init_database: the constructor of a repository for cls. On
\* a database that holds the table, cls is the class the table was made for.
__init__(cls) ==
    /\ created => (InitError(cls) # "ok" \/ Popped(cls) = fields)
    /\ call' = [op |-> "__init__", arg |-> cls]
    /\ obj' = None
    /\ UNCHANGED <<table, issued, written>>
    /\ ret' = IF InitError(cls) # "ok" THEN Raise(InitError(cls), "schema") ELSE Ok(None)
    /\ stmt' = IF InitError(cls) \in {"ok", "OperationalError"}
               THEN create_statement(Popped(cls)) ELSE NoStatement
    /\ open' = IF InitConnects(cls) THEN Scoped(open, FALSE, ret') ELSE open
    /\ created' = (created \/ InitError(cls) = "ok")
    /\ fields' = IF InitError(cls) = "ok" THEN Popped(cls) ELSE fields

\* add without the two checks of the key.
add_unchecked(o) ==
    /\ UNCHANGED <<fields, created>>
    /\ call' = [op |-> "add", arg |-> o]
    /\ Len(table) < MaxRows
    /\ NewRowid(table) <= MaxKey
    /\ table' = Insert(table, fields, decompose(fields, o))
    /\ obj' = [o EXCEPT !.has_pk = TRUE, !.primary_key = NewRowid(table)]
    /\ written' = Append(written, obj')
    /\ ret' = Ok(NewRowid(table))
    /\ stmt' = add_statement(fields, o)
    /\ open' = Scoped(open, TRUE, ret')
    /\ issued' = IF NewRowid(table) > issued THEN NewRowid(table) ELSE issued

add(o) ==
    /\ UNCHANGED <<fields, created>>
    /\ call' = [op |-> "add", arg |-> o]
    /\ IF ~o.has_pk
       THEN /\ ret' = Raise("ValueError", "without primary_key")
            /\ UNCHANGED <<table, written, open, issued>>
            /\ stmt' = NoStatement
            /\ obj' = o
       ELSE IF o.primary_key # 0
       THEN /\ ret' = Raise("ValueError", "filled primary_key")
            /\ UNCHANGED <<table, written, open, issued>>
            /\ stmt' = NoStatement
            /\ obj' = o
       ELSE /\ Len(table) < MaxRows
            /\ NewRowid(table) <= MaxKey
            /\ stmt' = add_statement(fields, o)
            /\ table' = Insert(table, fields, decompose(fields, o))
            /\ obj' = [o EXCEPT !.primary_key = NewRowid(table)]
            /\ written' = Append(written, [o EXCEPT !.primary_key = NewRowid(table)])
            /\ ret' = Ok(NewRowid(table))
            /\ open' = Scoped(open, TRUE, ret')
            /\ issued' = IF NewRowid(table) > issued THEN NewRowid(table) ELSE issued

\* get: the with block ends by return None or by its end; _make_obj runs
\* after it.
get(primary_key) ==
    /\ call' = [op |-> "get", arg |-> primary_key]
    /\ stmt' = get_statement(fields, primary_key)
    /\ ret' = GetResult(table, fields, primary_key)
    /\ open' = Scoped(open, FALSE, Ok(None))
    /\ obj' = None
    /\ UNCHANGED <<fields, created, table, written, issued>>

\* get_all that checks the filter's keys itself before it queries.
get_all_prevalidated(where) ==
    /\ call' = [op |-> "get_all", arg |-> where]
    /\ IF \E j \in 1..Len(where.items) : where.items[j].name \notin FieldNames(fields)
       THEN /\ stmt' = NoStatement
            /\ ret' = Raise("ValueError", "unknown field")
            /\ open' = open
       ELSE /\ stmt' = get_all_statement(fields, where)
            /\ ret' = GetAllResult(table, fields, where)
            /\ open' = Scoped(open, FALSE, Ok(None))
    /\ obj' = None
    /\ UNCHANGED <<fields, created, table, written, issued>>

\* get_all: a statement the database rejects raises inside the with block;
\* _make_obj runs after it.
get_all(where) ==
    /\ call' = [op |-> "get_all", arg |-> where]
    /\ stmt' = get_all_statement(fields, where)
    /\ ret' = GetAllResult(table, fields, where)
    /\ open' = Scoped(open, FALSE,
                      IF QueryFails(fields, where) THEN ret' ELSE Ok(None))
    /\ obj' = None
    /\ UNCHANGED <<fields, created, table, written, issued>>

\* update without the check of total_changes.
update_unchecked(o) ==
    /\ UNCHANGED <<fields, created, issued>>
    /\ call' = [op |-> "update", arg |-> o]
    /\ obj' = o
    /\ stmt' = update_statement(fields, o)
    /\ table' = Update(table, fields, o.primary_key, decompose(fields, o))
    /\ written' = [i \in 1..Len(written) |->
                     IF written[i].primary_key = o.primary_key THEN o ELSE written[i]]
    /\ ret' = Ok(None)
    /\ open' = Scoped(open, TRUE, ret')

\* con.total_changes of the call's own connection: the rows its one
\* statement changed. The error is raised inside the with block.
update(o) ==
    /\ UNCHANGED <<fields, created, issued>>
    /\ call' = [op |-> "update", arg |-> o]
    /\ obj' = o
    /\ IF ~o.has_pk
       THEN /\ ret' = Raise("AttributeError", "primary_key")
            /\ stmt' = NoStatement
            /\ UNCHANGED <<table, written, open>>
       ELSE IF Matching(table, o.primary_key) = {}
       THEN /\ ret' = RaiseKey("ValueError", "update key does not exist", o.primary_key)
            /\ stmt' = update_statement(fields, o)
            /\ open' = Scoped(open, TRUE, ret')
            /\ UNCHANGED <<table, written>>
       ELSE /\ stmt' = update_statement(fields, o)
            /\ table' = Update(table, fields, o.primary_key, decompose(fields, o))
            /\ written' = [i \in 1..Len(written) |->
                             IF written[i].primary_key = o.primary_key THEN o
                             ELSE written[i]]
            /\ ret' = Ok(None)
            /\ open' = Scoped(open, TRUE, ret')

\* delete raising update's error for a missing key.
delete_value_error(primary_key) ==
    /\ UNCHANGED <<fields, created, issued>>
    /\ call' = [op |-> "delete", arg |-> primary_key]
    /\ obj' = None
    /\ stmt' = delete_statement(fields, primary_key)
    /\ IF Matching(table, primary_key) = {}
       THEN /\ ret' = RaiseKey("ValueError", "delete key does not exist", primary_key)
            /\ UNCHANGED <<table, written>>
       ELSE /\ table' = Delete(table, primary_key)
            /\ written' = Keep(written, {i \in 1..Len(written) :
                                            written[i].primary_key # primary_key})
            /\ ret' = Ok(None)
    /\ open' = Scoped(open, TRUE, ret')

\* delete whose transaction is never committed.
delete_uncommitted(primary_key) ==
    /\ UNCHANGED <<fields, created, issued>>
    /\ call' = [op |-> "delete", arg |-> primary_key]
    /\ obj' = None
    /\ stmt' = delete_statement(fields, primary_key)
    /\ UNCHANGED <<table, written>>
    /\ ret' = IF Matching(table, primary_key) = {}
              THEN RaiseKey("KeyError", "delete key does not exist", primary_key)
              ELSE Ok(None)
    /\ open' = Scoped(open, TRUE, ret')

\* delete: the error is raised inside the with block.
delete(primary_key) ==
    /\ UNCHANGED <<fields, created, issued>>
    /\ call' = [op |-> "delete", arg |-> primary_key]
    /\ obj' = None
    /\ stmt' = delete_statement(fields, primary_key)
    /\ IF Matching(table, primary_key) = {}
       THEN /\ ret' = RaiseKey("KeyError", "delete key does not exist", primary_key)
            /\ UNCHANGED <<table, written>>
       ELSE /\ table' = Delete(table, primary_key)
            /\ written' = Keep(written, {i \in 1..Len(written) :
                                            written[i].primary_key # primary_key})
            /\ ret' = Ok(None)
    /\ open' = Scoped(open, TRUE, ret')

\* The methods are called on a repository that was constructed. Here the
\* instances are values: identities are left out.
Next ==
    \/ UNCHANGED <<heap, refs>> /\ \E cls \in Descriptors : __init__(cls)
    \/ UNCHANGED <<heap, refs>> /\ fields \in Classes
            /\ \E o \in InstancesOf[fields] : add(o)
    \/ UNCHANGED <<heap, refs>> /\ fields \in Classes
            /\ \E k \in 0..MaxKey : get(k)
    \/ UNCHANGED <<heap, refs>> /\ fields \in Classes
            /\ \E w \in FiltersOf[fields] : get_all(w)
    \/ UNCHANGED <<heap, refs>> /\ fields \in Classes
            /\ \E o \in InstancesOf[fields] : update(o)
    \/ UNCHANGED <<heap, refs>> /\ fields \in Classes
            /\ \E k \in 0..MaxKey : delete(k)

Spec == Init /\ [][Next]_vars

----------------------------------------------------------------------------
(* The caller's instances, by identity *)

\* A repository of Custom was constructed on a database without the table;
\* the caller holds no instance yet.
InitAlias ==
    /\ fields = Custom
    /\ created = TRUE
    /\ table = <<>>
    /\ stmt = create_statement(Custom)
    /\ open = Closed
    /\ issued = 0
    /\ call = [op |-> "__init__", arg |-> Annotated(Custom)]
    /\ ret = Ok(None)
    /\ obj = None
    /\ written = <<>>
    /\ heap = <<>>
    /\ refs = <<>>

\* Custom(data = n, data_str = "test"), its key 0.
NewCustom(n) ==
    [has_pk |-> TRUE, primary_key |-> 0,
     attrs |-> [name \in FieldNames(Custom) |->
                  IF name = "data" THEN IntV(n) ELSE StrV("test")]]

\* The caller constructs an instance.
new_instance(o) ==
    /\ Len(heap) < MaxObjects
    /\ heap' = Append(heap, o)
    /\ refs' = <<>>
    /\ call' = [op |-> "new", arg |-> Len(heap) + 1]
    /\ ret' = Ok(None)
    /\ obj' = None
    /\ UNCHANGED <<fields, created, table, stmt, open, issued, written>>

\* The caller sets the field data of an instance it holds.
setattr(id, val) ==
    /\ heap[id].attrs["data"] # val
    /\ heap' = [heap EXCEPT ![id].attrs["data"] = val]
    /\ refs' = <<>>
    /\ call' = [op |-> "setattr", arg |-> id]
    /\ ret' = Ok(None)
    /\ obj' = None
    /\ UNCHANGED <<fields, created, table, stmt, open, issued, written>>

\* add(obj) for an instance the caller holds: setattr(obj, primary_key, ...)
\* acts on that instance.
add_instance(id) ==
    /\ add(heap[id])
    /\ heap' = [heap EXCEPT ![id] = obj']
    /\ refs' = <<>>

\* update(obj) for an instance the caller holds: obj is only read.
update_instance(id) ==
    /\ update(heap[id])
    /\ UNCHANGED heap
    /\ refs' = <<>>

\* get that hands out the instance it was given for the key, if the caller
\* still holds one.
get_instance_cached(primary_key) ==
    /\ Len(heap) < MaxObjects
    /\ get(primary_key)
    /\ IF Matching(table, primary_key) = {}
       THEN UNCHANGED heap /\ refs' = <<>>
       ELSE IF \E id \in 1..Len(heap) : heap[id].primary_key = primary_key
       THEN /\ UNCHANGED heap
            /\ refs' = <<CHOOSE id \in 1..Len(heap) : heap[id].primary_key = primary_key>>
       ELSE /\ heap' = Append(heap, ret'.val)
            /\ refs' = <<Len(heap) + 1>>

\* get: _make_obj constructs the instance it returns (obj = self._cls()).
get_instance(primary_key) ==
    /\ Len(heap) < MaxObjects
    /\ get(primary_key)
    /\ IF Matching(table, primary_key) = {}
       THEN UNCHANGED heap /\ refs' = <<>>
       ELSE /\ heap' = Append(heap, ret'.val)
            /\ refs' = <<Len(heap) + 1>>

\* get_all: _make_obj constructs an instance for every row.
get_all_instances(where) ==
    /\ Len(heap) + Len(table) <= MaxObjects
    /\ get_all(where)
    /\ IF ret'.kind # "ok"
       THEN UNCHANGED heap /\ refs' = <<>>
       ELSE /\ heap' = heap \o ret'.val
            /\ refs' = [i \in 1..Len(ret'.val) |-> Len(heap) + i]

\* The caller lets go of the instance it got last.
del_instance ==
    /\ heap # <<>>
    /\ heap' = SubSeq(heap, 1, Len(heap) - 1)
    /\ refs' = <<>>
    /\ call' = [op |-> "del", arg |-> Len(heap)]
    /\ ret' = Ok(None)
    /\ obj' = None
    /\ UNCHANGED <<fields, created, table, stmt, open, issued, written>>

\* The caller adds the instances it has not added yet and updates those
\* whose key has a row; rows are not deleted here.
NextAlias ==
    \/ new_instance(NewCustom(0))
    \/ \E id \in 1..Len(heap) : \E n \in {0, 1} : setattr(id, IntV(n))
    \/ \E id \in 1..Len(heap) : heap[id].primary_key = 0 /\ add_instance(id)
    \/ \E id \in 1..Len(heap) :
          Matching(table, heap[id].primary_key) # {} /\ update_instance(id)
    \/ \E k \in 1..MaxKey : get_instance(k)
    \/ get_all_instances(NoWhere)
    \/ del_instance

SpecAlias == InitAlias /\ [][NextAlias]_vars

----------------------------------------------------------------------------
(* Properties *)

Keys(tbl) == {tbl[i].primary_key : i \in 1..Len(tbl)}

\* The instances the table holds, as get_all() reads them back.
Stored == GetAllResult(table, fields, NoWhere).val

\* a == b in Python: numbers by value, texts and date-times by their parts,
\* values of unlike kinds are unequal.
PyEq(a, b) ==
    IF a.t \in {"int", "float"} /\ b.t \in {"int", "float"}
    THEN (IF a.t = "int" THEN 10 * a.v ELSE a.v) = (IF b.t = "int" THEN 10 * b.v ELSE b.v)
    ELSE a.t = b.t /\ a.v = b.v

\* C1: add of an instance with key 0 succeeds, returns a key, sets the
\* instance's key to it, and get of that key returns an instance equal to the
\* one added, with that key.
C1_AddGetRoundTrip ==
    (call.op = "add" /\ call.arg.has_pk /\ call.arg.primary_key = 0) =>
        /\ ret.kind = "ok"
        /\ obj = [call.arg EXCEPT !.primary_key = ret.val]
        /\ GetResult(table, fields, ret.val) = Ok(obj)

\* C2: add of an instance whose key is not 0, or that has no key attribute,
\* raises ValueError (one message for each case), inserts nothing, leaves the
\* rows as they were and does not change the instance.
C2_AddRejectsBadKey ==
    [][(call'.op = "add" /\ (~call'.arg.has_pk \/ call'.arg.primary_key # 0)) =>
          /\ ret'.kind = "ValueError"
          /\ ret'.val.msg = (IF call'.arg.has_pk THEN "filled primary_key"
                             ELSE "without primary_key")
          /\ table' = table
          /\ obj' = call'.arg]_vars

\* An add was refused for a key that a stored row has.
C2_Witness ==
    /\ call.op = "add"
    /\ ret.kind = "ValueError"
    /\ call.arg.has_pk
    /\ call.arg.primary_key \in Keys(table)

\* C3: update of an instance whose key has a row succeeds, and get of that
\* key then returns an instance equal to the one passed to update.
C3_UpdateVisibleToGet ==
    [][(/\ call'.op = "update"
        /\ call'.arg.has_pk
        /\ call'.arg.primary_key \in Keys(table)) =>
          /\ ret'.kind = "ok"
          /\ GetResult(table', fields', call'.arg.primary_key) = Ok(call'.arg)]_vars

\* C4: update of an instance whose key has no row (0 included) raises
\* ValueError naming the key, creates no row, leaves the rows as they were
\* and does not change the instance.
C4_UpdateMissingKeyFails ==
    [][(/\ call'.op = "update"
        /\ call'.arg.has_pk
        /\ call'.arg.primary_key \notin Keys(table)) =>
          /\ ret'.kind = "ValueError"
          /\ ret'.val.key = call'.arg.primary_key
          /\ table' = table
          /\ obj' = call'.arg]_vars

\* An update was refused for a key without a row while a row is stored.
C4_Witness ==
    /\ call.op = "update"
    /\ ret.kind = "ValueError"
    /\ call.arg.primary_key >= 1
    /\ table # <<>>

\* C5: delete of a key that has no row raises KeyError (not update's
\* ValueError) naming the key and leaves the rows as they were.
C5_DeleteMissingKeyFails ==
    [][(call'.op = "delete" /\ call'.arg \notin Keys(table)) =>
          /\ ret'.kind = "KeyError"
          /\ ret'.kind # "ValueError"
          /\ ret'.val.key = call'.arg
          /\ table' = table]_vars

\* A delete was refused while rows are stored.
C5_Witness ==
    /\ call.op = "delete"
    /\ ret.kind = "KeyError"
    /\ call.arg >= 1
    /\ table # <<>>

\* C6: after a delete that succeeded, get of the key returns None and
\* get_all() has no instance with that key.
C6_DeleteRemovesRow ==
    (call.op = "delete" /\ ret.kind = "ok") =>
        /\ GetResult(table, fields, call.arg) = Ok(None)
        /\ GetAllResult(table, fields, NoWhere).kind = "ok"
        /\ \A i \in 1..Len(Stored) : Stored[i].primary_key # call.arg

\* A delete succeeded and another row is still stored.
C6_Witness ==
    /\ call.op = "delete"
    /\ ret.kind = "ok"
    /\ table # <<>>

\* C7: get_all() returns one instance per stored row, each equal to the
\* instance last written under its key, in the order the surviving
\* instances were added.
C7_GetAllReturnsStored == GetAllResult(table, fields, NoWhere) = Ok(written)

\* The filter's keys are field names and each value has its field's type.
TypedFilter(fs, where) ==
    /\ where.given
    /\ where.items # <<>>
    /\ \A j \in 1..Len(where.items) :
          /\ where.items[j].name \in FieldNames(fs)
          /\ where.items[j].val.t = FieldType(fs, where.items[j].name)

\* C8: get_all(filter) with field names as keys and an integer, text, real
\* or date-time value for a field of that type returns exactly the stored
\* instances whose fields equal the filter's values, for every key of the
\* filter: none that matches is left out, none that does not is returned.
C8_FilterIsExactEquality ==
    (call.op = "get_all" /\ TypedFilter(fields, call.arg)) =>
        /\ ret.kind = "ok"
        /\ ret.val = SelectSeq(Stored,
                        LAMBDA r : \A j \in 1..Len(call.arg.items) :
                            PyEq(r.attrs[call.arg.items[j].name], call.arg.items[j].val))

\* C9: the stored rows have distinct keys, every key is at least 1, and the
\* key add returns is at least 1 and is the key of exactly one row.
C9_PrimaryKeyInvariant ==
    /\ \A i, j \in 1..Len(table) : table[i].primary_key = table[j].primary_key => i = j
    /\ \A i \in 1..Len(table) : table[i].primary_key >= 1
    /\ (call.op = "add" /\ ret.kind = "ok") =>
          /\ ret.val >= 1
          /\ Cardinality(Matching(table, ret.val)) = 1

\* An add returned a key while another row was stored.
C9_Witness ==
    /\ call.op = "add"
    /\ ret.kind = "ok"
    /\ ret.val = 2
    /\ Len(table) = 2

\* The years whose two-digit form is read back as the same year.
TwoDigitYears == 1969..2068

\* Date-times at the ends of that range and inside it.
CodecDates ==
    {DateV(y, md[1], md[2], 0, 0, 0, us) :
        y \in {1969, 1999, 2000, 2024, 2068},
        md \in {<<1, 1>>, <<2, 28>>, <<12, 31>>},
        us \in {0, 1, 999999}}
        \cup {DateV(y, 12, 31, 23, 59, 59, 999999) : y \in {1969, 2068}}

\* C10: a date-time whose year is in the two-digit range is decoded from its
\* encoded text as the same date-time, and add followed by get returns the
\* same date-time in a date-time field.
C10_DateTimeRoundTrip ==
    /\ \A d \in CodecDates :
          d.v.year \in TwoDigitYears =>
              make_val_from_sql("datetime", val_to_sql(d)) = d
    /\ (/\ call.op = "add"
        /\ ret.kind = "ok"
        /\ "data_dt" \in FieldNames(fields)
        /\ call.arg.attrs["data_dt"].v.year \in TwoDigitYears) =>
          /\ GetResult(table, fields, ret.val).kind = "ok"
          /\ GetResult(table, fields, ret.val).val.attrs["data_dt"]
                = call.arg.attrs["data_dt"]

\* An instance with a date-time of 2024 was added.
C10_Witness ==
    /\ call.op = "add"
    /\ ret.kind = "ok"
    /\ fields = Stamped
    /\ call.arg.attrs["data_dt"] = Date2024

----------------------------------------------------------------------------
(* Construction, statements, connections *)

\* Some field of the class other than the key has a type without a mapping.
Unmapped(cls) == \E i \in 1..Len(Popped(cls)) : ~Mapped(Popped(cls)[i].tpy)

\* C11: construction for a class that declares no fields raises TypeError,
\* for a class with a field of a type without a mapping it raises too
\* (ValueError where the class declares its key), and neither creates a
\* table; after a construction that succeeded the fields other than the key
\* are not empty and each has a mapped type.
C11_ConstructionValidatesSchema ==
    [][(call'.op = "__init__") =>
          /\ Len(call'.arg) = 0 =>
                ret'.kind = "TypeError"
          /\ (Unmapped(call'.arg) /\ InitError(call'.arg) # "KeyError") =>
                ret'.kind = "ValueError"
          /\ (Len(call'.arg) = 0 \/ Unmapped(call'.arg)) =>
                /\ ret'.kind # "ok"
                /\ created' = created
                /\ table' = table
                /\ fields' = fields
          /\ ret'.kind = "ok" =>
                /\ fields' = Popped(call'.arg)
                /\ fields' # <<>>
                /\ \A i \in 1..Len(fields') : Mapped(fields'[i].tpy)]_vars

\* A construction was refused for an unmapped type and no table exists.
C11_Witness ==
    /\ call.op = "__init__"
    /\ Unmapped(call.arg)
    /\ ret.kind = "ValueError"
    /\ ~created

\* The names of the filter's keys, in order.
FilterKeys(where) == [j \in 1..Len(where.items) |-> where.items[j].name]

\* C12: the text of the statement a call issues is the text every call of
\* the same operation issues, whatever the field values, the filter values
\* (for the same filter keys) or the key given to get, update and delete.
C12_ValuesAreBoundParameters ==
    /\ (call.op = "add" /\ ret.kind = "ok") =>
          \A o \in InstancesOf[fields] : add_statement(fields, o).text = stmt.text
    /\ call.op = "get" =>
          \A k \in 0..MaxKey : get_statement(fields, k).text = stmt.text
    /\ call.op = "get_all" =>
          \A w \in FiltersOf[fields] :
              (w.given = call.arg.given /\ FilterKeys(w) = FilterKeys(call.arg)) =>
                  get_all_statement(fields, w).text = stmt.text
    /\ (call.op = "update" /\ call.arg.has_pk) =>
          \A o \in InstancesOf[fields] :
              o.has_pk => update_statement(fields, o).text = stmt.text
    /\ call.op = "delete" =>
          \A k \in 0..MaxKey : delete_statement(fields, k).text = stmt.text

\* C13: get_all with a filter mapping that has no keys succeeds and returns
\* the list get_all() without a filter returns.
C13_EmptyFilterSelectsAll ==
    (call.op = "get_all" /\ call.arg.given /\ call.arg.items = <<>>) =>
        /\ ret.kind = "ok"
        /\ ret = GetAllResult(table, fields, NoWhere)

\* Some key of the filter is not in names.
UnknownKey(where, names) ==
    /\ where.given
    /\ \E j \in 1..Len(where.items) : where.items[j].name \notin names

C15_KeysNeverReused ==
    [][(call'.op = "add" /\ ret'.kind = "ok") => ret'.val > issued]_vars

\* C17: after construction and after every call of add, get, get_all,
\* update and delete, whether it returned or raised, no connection and no
\* cursor is open and no transaction is uncommitted.
C17_ScopedConnections == open = Closed

\* A delete and an update failed on a missing key, a get returned None.
C17_Witness ==
    /\ open = Closed
    /\ \/ call.op = "delete" /\ ret.kind = "KeyError"
       \/ call.op = "update" /\ ret.kind = "ValueError" /\ stmt # NoStatement

\* C18: construction for the class of a table the database holds succeeds
\* and leaves the table and its rows as they were: get of every key and
\* get_all() return what they returned before, and the next key add assigns
\* is the key of no stored row.
C18_ConstructionIdempotent ==
    [][(/\ call'.op = "__init__"
        /\ created
        /\ InitError(call'.arg) = "ok"
        /\ Popped(call'.arg) = fields) =>
          /\ ret'.kind = "ok"
          /\ created'
          /\ table' = table
          /\ fields' = fields
          /\ \A k \in 0..MaxKey :
                GetResult(table', fields', k) = GetResult(table, fields, k)
          /\ GetAllResult(table', fields', NoWhere) = GetAllResult(table, fields, NoWhere)
          /\ NewRowid(table') \notin Keys(table')]_vars

\* A repository was constructed on a table that holds rows.
C18_Witness ==
    /\ call.op = "__init__"
    /\ ret.kind = "ok"
    /\ table # <<>>

\* The rows of tbl with the key.
RowsOf(tbl, key) == {tbl[i] : i \in Matching(tbl, key)}

\* C19: a successful add inserts one row and changes no other; a successful
\* update changes only columns other than the key of the row with the
\* instance's key, and adds and removes no row; a successful delete removes
\* the row with the key and no other; get and get_all leave the rows as
\* they were. get of every key other than the call's returns what it
\* returned before.
C19_OnlyTargetRow ==
    [][/\ (call'.op = "add" /\ ret'.kind = "ok") =>
            /\ Len(table') = Len(table) + 1
            /\ Keys(table') = Keys(table) \cup {ret'.val}
            /\ \A j \in 0..MaxKey \ {ret'.val} :
                  /\ RowsOf(table', j) = RowsOf(table, j)
                  /\ GetResult(table', fields', j) = GetResult(table, fields, j)
       /\ (call'.op = "update" /\ ret'.kind = "ok") =>
            /\ Len(table') = Len(table)
            /\ \A i \in 1..Len(table) : table'[i].primary_key = table[i].primary_key
            /\ \A j \in 0..MaxKey \ {call'.arg.primary_key} :
                  /\ RowsOf(table', j) = RowsOf(table, j)
                  /\ GetResult(table', fields', j) = GetResult(table, fields, j)
       /\ (call'.op = "delete" /\ ret'.kind = "ok") =>
            /\ Len(table') = Len(table) - 1
            /\ Keys(table') = Keys(table) \ {call'.arg}
            /\ \A j \in 0..MaxKey \ {call'.arg} :
                  /\ RowsOf(table', j) = RowsOf(table, j)
                  /\ GetResult(table', fields', j) = GetResult(table, fields, j)
       /\ call'.op \in {"get", "get_all"} => table' = table]_vars

\* An update succeeded on one of two stored rows.
C19_Witness ==
    /\ call.op = "update"
    /\ ret.kind = "ok"
    /\ Len(table) = 2

\* C16: the instances get and get_all return are new ones, distinct from
\* each other and from every instance the caller holds (those it passed to
\* add or update and those returned earlier), which stay as they are; and
\* setting a field of an instance the caller holds changes neither the rows
\* nor what get of any key and get_all() return.
C16_NoAliasing ==
    [][/\ (call'.op \in {"get", "get_all"} /\ ret'.kind = "ok") =>
            /\ \A i \in 1..Len(refs') :
                  /\ refs'[i] \notin 1..Len(heap)
                  /\ refs'[i] \in 1..Len(heap')
                  /\ \A j \in 1..Len(refs') : refs'[i] = refs'[j] => i = j
            /\ \A id \in 1..Len(heap) : heap'[id] = heap[id]
            /\ call'.op = "get" =>
                  /\ Len(refs') = (IF Matching(table, call'.arg) = {} THEN 0 ELSE 1)
                  /\ \A i \in 1..Len(refs') : heap'[refs'[i]] = ret'.val
            /\ call'.op = "get_all" =>
                  /\ Len(refs') = Len(ret'.val)
                  /\ \A i \in 1..Len(refs') : heap'[refs'[i]] = ret'.val[i]
       /\ call'.op = "setattr" =>
            /\ table' = table
            /\ \A k \in 0..MaxKey :
                  GetResult(table', fields', k) = GetResult(table, fields, k)
            /\ GetAllResult(table', fields', NoWhere) = GetAllResult(table, fields, NoWhere)]_vars

\* get returned an instance for a key whose added instance the caller still
\* holds and has changed since.
C16_Witness ==
    /\ call.op = "get"
    /\ Len(refs) = 1
    /\ \E id \in 1..Len(heap) :
          /\ id # refs[1]
          /\ heap[id].primary_key = call.arg
          /\ heap[id].attrs # heap[refs[1]].attrs

====
